---- MODULE Spec2Model ----
(***************************************************************************)
(* Model of src/PlaylistDataExporter.py: the fetch / enrich / merge        *)
(* pipeline that exports a user's liked tracks to Liked_Songs.csv.         *)
(*                                                                         *)
(* Python values are tagged records ([kind |-> ...]); a Python str is the  *)
(* sequence of its characters, a dict is a function from key names to      *)
(* values (a missing key is a name outside its DOMAIN), a list is a        *)
(* sequence.                                                               *)
(***************************************************************************)
EXTENDS Integers, Sequences, FiniteSets, TLC

VARIABLES
    \* keymode_to_camelot called on its own
    ckey, cmode, cresult, cpc,
    \* the Spotify client (environment): the saved-tracks pages it serves
    upstream,
    \* what the client was asked to do, in order (requests and time.sleep calls)
    events,
    \* fetch_liked_tracks
    res, items,
    \* collect_base_rows
    base_rows, track_ids,
    \* fetch_audio_features
    start, features_by_id,
    \* assemble_rows, write_liked_songs_csv (csv: what Liked_Songs.csv holds)
    final_rows, csv,
    \* what Liked_Songs.csv held before the run
    prior_csv,
    \* position of the run
    pc

vars == <<ckey, cmode, cresult, cpc, upstream, events, res, items, base_rows,
          track_ids, start, features_by_id, final_rows, csv, prior_csv, pc>>

camelotVars == <<ckey, cmode, cresult, cpc>>
runVars == <<upstream, events, res, items, base_rows, track_ids, start,
             features_by_id, final_rows, csv, prior_csv, pc>>

----------------------------------------------------------------------------
(* Bounds of the model *)

\* integers tried as key / mode range over MinKey .. MaxKey
MaxKey == 12
\* strings tried as key / mode have at most this many characters
MaxStrLen == 2

----------------------------------------------------------------------------
(* Python values *)

PNone == [kind |-> "none"]
PInt(i) == [kind |-> "int", v |-> i]
PBool(b) == [kind |-> "bool", b |-> b]
PStr(cs) == [kind |-> "str", s |-> cs]
\* a float with one decimal digit: the number tenths / 10
PFloat(t) == [kind |-> "float", fv |-> "finite", tenths |-> t]
PInf == [kind |-> "float", fv |-> "inf", tenths |-> 0]
PNan == [kind |-> "float", fv |-> "nan", tenths |-> 0]
PList(xs) == [kind |-> "list", elems |-> xs]
PDict(d) == [kind |-> "dict", d |-> d]

EmptyStr == PStr(<<>>)
EmptyDict == PDict(<<>>)

\* bool(v): Python truthiness
Truthy(v) ==
    CASE v.kind = "none" -> FALSE
      [] v.kind = "int" -> v.v # 0
      [] v.kind = "bool" -> v.b
      [] v.kind = "str" -> v.s # <<>>
      [] v.kind = "float" -> ~(v.fv = "finite" /\ v.tenths = 0)
      [] v.kind = "list" -> v.elems # <<>>
      [] v.kind = "dict" -> DOMAIN v.d # {}

\* d.get(k, default) on a dict value
Get(dv, k, default) == IF k \in DOMAIN dv.d THEN dv.d[k] ELSE default

\* a or b
Or(a, b) == IF Truthy(a) THEN a ELSE b

Digits == <<"0", "1", "2", "3", "4", "5", "6", "7", "8", "9">>
DigitSet == {Digits[i] : i \in 1..10}
DigitVal(c) == (CHOOSE i \in 1..10 : Digits[i] = c) - 1

RECURSIVE StripLeft(_)
StripLeft(cs) == IF cs # <<>> /\ Head(cs) = " " THEN StripLeft(Tail(cs)) ELSE cs

RECURSIVE StripRight(_)
StripRight(cs) ==
    IF cs # <<>> /\ cs[Len(cs)] = " "
    THEN StripRight(SubSeq(cs, 1, Len(cs) - 1))
    ELSE cs

RECURSIVE DigitsVal(_, _)
DigitsVal(cs, acc) ==
    IF cs = <<>> THEN acc ELSE DigitsVal(Tail(cs), 10 * acc + DigitVal(Head(cs)))

\* int(x) for a str: surrounding blanks are stripped, one sign is allowed, the
\* rest must be decimal digits; anything else is a ValueError (the "_" digit
\* separator int() also accepts is not among the characters tried)
IntOfStr(cs) ==
    LET t == StripRight(StripLeft(cs))
        signed == t # <<>> /\ Head(t) \in {"-", "+"}
        body == IF signed THEN Tail(t) ELSE t
    IN  IF body # <<>> /\ \A i \in 1..Len(body) : body[i] \in DigitSet
        THEN [ok |-> TRUE,
              v |-> IF signed /\ Head(t) = "-" THEN 0 - DigitsVal(body, 0)
                    ELSE DigitsVal(body, 0)]
        ELSE [ok |-> FALSE, exc |-> "ValueError"]

\* truncation toward zero of tenths / 10
Trunc10(t) == IF t >= 0 THEN t \div 10 ELSE 0 - ((0 - t) \div 10)

\* int(x): the integer, or the exception int() raises
IntOf(x) ==
    CASE x.kind = "int" -> [ok |-> TRUE, v |-> x.v]
      [] x.kind = "bool" -> [ok |-> TRUE, v |-> IF x.b THEN 1 ELSE 0]
      [] x.kind = "str" -> IntOfStr(x.s)
      [] x.kind = "float" ->
            IF x.fv = "finite" THEN [ok |-> TRUE, v |-> Trunc10(x.tenths)]
            ELSE IF x.fv = "nan" THEN [ok |-> FALSE, exc |-> "ValueError"]
            ELSE [ok |-> FALSE, exc |-> "OverflowError"]
      [] OTHER -> [ok |-> FALSE, exc |-> "TypeError"]

RECURSIVE NatChars(_)
NatChars(n) ==
    IF n < 10 THEN <<Digits[n + 1]>> ELSE NatChars(n \div 10) \o <<Digits[(n % 10) + 1]>>

\* str(i) for an int
IntChars(i) == IF i < 0 THEN <<"-">> \o NatChars(0 - i) ELSE NatChars(i)

----------------------------------------------------------------------------
(* Camelot mapping *)

\* the dict literal: (key, mode) -> code, as wheel number and letter
KEYMODE_TO_CAMELOT ==
    [p \in {<<k, m>> : k \in 0..11, m \in {0}} |->
        <<5, 12, 7, 2, 9, 4, 11, 6, 1, 8, 3, 10>>[p[1] + 1]] @@
    [p \in {<<k, m>> : k \in 0..11, m \in {1}} |->
        <<8, 3, 10, 5, 12, 7, 2, 9, 4, 11, 6, 1>>[p[1] + 1]]

\* the code string of a table entry: "5A", "12B", ...
CamelotCode(k, m) ==
    NatChars(KEYMODE_TO_CAMELOT[<<k, m>>]) \o (IF m = 0 THEN <<"A">> ELSE <<"B">>)

\* KEYMODE_TO_CAMELOT.get((k, m), "")
CamelotGet(k, m) ==
    IF <<k, m>> \in DOMAIN KEYMODE_TO_CAMELOT THEN CamelotCode(k, m) ELSE <<>>

\* keymode_to_camelot(key, mode): [ret |-> the str returned] or
\* [exc |-> the exception that leaves the function]
keymode_to_camelot(key, mode) ==
    IF key = PNone \/ mode = PNone
    THEN [ret |-> <<>>]
    ELSE LET k == IntOf(key)
         IN  IF ~k.ok
             THEN IF k.exc \in {"TypeError", "ValueError"}
                  THEN [ret |-> <<>>]
                  ELSE [exc |-> k.exc]
             ELSE LET m == IntOf(mode)
                  IN  IF ~m.ok
                      THEN IF m.exc \in {"TypeError", "ValueError"}
                           THEN [ret |-> <<>>]
                           ELSE [exc |-> m.exc]
                      ELSE [ret |-> CamelotGet(k.v, m.v)]

----------------------------------------------------------------------------
(* keymode_to_camelot on its own: any two values as key and mode *)

MinKey == 0 - 1
StrAlphabet == {"1", "5", "-", " ", "a"}
StrInputs == UNION {[1..n -> StrAlphabet] : n \in 0..MaxStrLen}
FloatInputs == {PFloat(t) : t \in {0 - 5, 0, 57, 110, 125}} \cup {PInf, PNan}
CamelotInputs ==
    {PNone} \cup {PInt(i) : i \in MinKey..MaxKey} \cup {PBool(b) : b \in BOOLEAN}
    \cup {PStr(cs) : cs \in StrInputs} \cup FloatInputs
    \cup {PList(<<>>), EmptyDict}

\* the run of the export has not started
RunIdle ==
    /\ upstream = <<>>
    /\ events = <<>>
    /\ res = PNone
    /\ items = <<>>
    /\ base_rows = <<>>
    /\ track_ids = <<>>
    /\ start = 0
    /\ features_by_id = <<>>
    /\ final_rows = <<>>
    /\ csv = PNone
    /\ prior_csv = PNone
    /\ pc = "idle"

InitCamelot ==
    /\ ckey \in CamelotInputs
    /\ cmode \in CamelotInputs
    /\ cresult = PNone
    /\ cpc = "call"
    /\ RunIdle

CallCamelot ==
    /\ cpc = "call"
    /\ cresult' = keymode_to_camelot(ckey, cmode)
    /\ cpc' = IF "exc" \in DOMAIN cresult' THEN "raised" ELSE "returned"
    /\ UNCHANGED <<ckey, cmode>>
    /\ UNCHANGED runVars

NextCamelot == CallCamelot

SpecCamelot == InitCamelot /\ [][NextCamelot]_vars

\* the wheel number the Camelot system gives pitch class k in mode m (the wheel
\* steps by fifths: 7 semitones per position)
WheelNumber(k, m) == ((7 * k + (IF m = 1 THEN 7 ELSE 4)) % 12) + 1
WheelCode(k, m) == NatChars(WheelNumber(k, m)) \o (IF m = 0 THEN <<"A">> ELSE <<"B">>)

\* C7: keymode_to_camelot never raises; for the 24 pairs (0..11, 0 or 1) it
\* returns the canonical code ((0,0) 5A, (0,1) 8B, (11,1) 1B), the codes being
\* pairwise distinct and covering {1..12} x {A,B}; for a pair outside that
\* domain, an absent input or an input that is no integer (read here as: that
\* int() cannot turn into one) it returns the empty string.
C7_CamelotTotal ==
    cpc # "call" =>
        /\ cpc = "returned"
        /\ LET k == IntOf(ckey)
               m == IntOf(cmode)
           IN  IF ckey # PNone /\ cmode # PNone /\ k.ok /\ m.ok
               THEN IF k.v \in 0..11 /\ m.v \in 0..1
                    THEN cresult.ret = WheelCode(k.v, m.v)
                    ELSE cresult.ret = <<>>
               ELSE cresult.ret = <<>>
        /\ CamelotGet(0, 0) = <<"5", "A">>
        /\ CamelotGet(0, 1) = <<"8", "B">>
        /\ CamelotGet(11, 1) = <<"1", "B">>
        /\ Cardinality({CamelotGet(p[1], p[2]) : p \in DOMAIN KEYMODE_TO_CAMELOT}) = 24
        /\ {CamelotGet(p[1], p[2]) : p \in DOMAIN KEYMODE_TO_CAMELOT}
             = {NatChars(n) \o <<c>> : n \in 1..12, c \in {"A", "B"}}

\* the same statement away from the one input int() answers with OverflowError
C7_ExceptInfinity ==
    (PInf \notin {ckey, cmode} \/ PNone \in {ckey, cmode}) => C7_CamelotTotal

----------------------------------------------------------------------------
(* The client's saved-tracks endpoint and fetch_liked_tracks *)

\* pages the client may serve are numbered 1 .. MaxPages
MaxPages == 3
\* a page of the pagination check carries at most this many items
MaxPageLen == 1

\* SPOTIFY_SLEEP_MS default
SLEEP_MS == 200
\* limit = 50
limit == 50

\* the "next" reference that leads to page c
Cursor(c) == PStr(<<"p">> \o NatChars(c))

\* sp.next(res): the page the cursor of res leads to
\* (None when its "next" is falsy, as spotipy's Spotify.next answers)
NextPageOf(r) ==
    IF \E c \in DOMAIN upstream : Cursor(c) = Get(r, "next", PNone)
    THEN upstream[CHOOSE c \in DOMAIN upstream : Cursor(c) = Get(r, "next", PNone)]
    ELSE PNone

\* res.get("next") is truthy
HasNextAlways(r) == TRUE
HasNext(r) == Truthy(Get(r, "next", PNone))

\* items.extend(res.get("items", []))
ExtendedPrepending(its, r) == Get(r, "items", PList(<<>>)).elems \o its
Extended(its, r) == its \o Get(r, "items", PList(<<>>)).elems

\* the loop is followed for at most this many requests (a cursor that leads back
\* to an earlier page would otherwise be followed for ever)
MaxRequests == MaxPages + 1
Requests == SelectSeq(events, LAMBDA e : e.op \in {"current_user_saved_tracks", "next"})

\* lines 109-115: the first page
FetchFirstPage ==
    /\ pc = "fetch"
    /\ events' = Append(events, [op |-> "current_user_saved_tracks", limit |-> limit])
    /\ res' = upstream[1]
    /\ items' = Extended(<<>>, res')
    /\ pc' = "fetch_loop"
    /\ UNCHANGED <<upstream, base_rows, track_ids, start, features_by_id, final_rows, csv, prior_csv>>
    /\ UNCHANGED camelotVars

\* lines 117-118: the loop test holds, time.sleep
FetchSleepBeforeTest ==
    /\ pc = "fetch_loop"
    /\ Len(Requests) < MaxRequests
    /\ events' = Append(events, [op |-> "sleep", ms |-> SLEEP_MS])
    /\ pc' = IF HasNext(res) THEN "fetch_next" ELSE "fetched"
    /\ UNCHANGED <<upstream, res, items, base_rows, track_ids, start, features_by_id,
                   final_rows, csv, prior_csv>>
    /\ UNCHANGED camelotVars
FetchSleep ==
    /\ pc = "fetch_loop"
    /\ HasNext(res)
    /\ Len(Requests) < MaxRequests
    /\ events' = Append(events, [op |-> "sleep", ms |-> SLEEP_MS])
    /\ pc' = "fetch_next"
    /\ UNCHANGED <<upstream, res, items, base_rows, track_ids, start, features_by_id,
                   final_rows, csv, prior_csv>>
    /\ UNCHANGED camelotVars

\* lines 119-122: the next page
FetchNextPage ==
    /\ pc = "fetch_next"
    /\ events' = Append(events, [op |-> "next", cursor |-> Get(res, "next", PNone)])
    /\ res' = NextPageOf(res)
    /\ IF res' = PNone
       THEN \* None has no .get: AttributeError leaves the function
            /\ items' = items
            /\ pc' = "fetch_raised"
       ELSE /\ items' = Extended(items, res')
            /\ pc' = "fetch_loop"
    /\ UNCHANGED <<upstream, base_rows, track_ids, start, features_by_id, final_rows, csv, prior_csv>>
    /\ UNCHANGED camelotVars

\* lines 117, 124-125: the loop test fails, return items
FetchReturn ==
    /\ pc = "fetch_loop"
    /\ ~HasNext(res)
    /\ pc' = "fetched"
    /\ UNCHANGED <<upstream, events, res, items, base_rows, track_ids, start,
                   features_by_id, final_rows, csv, prior_csv>>
    /\ UNCHANGED camelotVars

(* fetch_liked_tracks on its own, against any pages: the j-th item of page c is
   an item of its own, a page may lack its "items", and its "next" is absent,
   empty, or leads to any page (also an earlier one) *)

Token(c, j) == PDict([added_at |-> PStr(NatChars(c) \o <<"/">> \o NatChars(j))])
NextRefs == {PNone, EmptyStr} \cup {Cursor(d) : d \in 1..MaxPages}
\* what a page looks like: how many items (or no "items" at all) and its "next"
PageShapes == [n : 0..MaxPageLen, hasItems : BOOLEAN, nx : NextRefs]
TokenPage(c, sh) ==
    IF sh.hasItems
    THEN PDict([items |-> PList([j \in 1..sh.n |-> Token(c, j)]), next |-> sh.nx])
    ELSE PDict([next |-> sh.nx])

CamelotIdle ==
    /\ ckey = PNone
    /\ cmode = PNone
    /\ cresult = PNone
    /\ cpc = "idle"

InitFetch ==
    /\ CamelotIdle
    /\ \E sh \in [1..MaxPages -> PageShapes] :
          /\ \A c \in 1..MaxPages : ~sh[c].hasItems => sh[c].n = 0
          /\ upstream = [c \in 1..MaxPages |-> TokenPage(c, sh[c])]
    /\ events = <<>>
    /\ res = PNone
    /\ items = <<>>
    /\ base_rows = <<>>
    /\ track_ids = <<>>
    /\ start = 0
    /\ features_by_id = <<>>
    /\ final_rows = <<>>
    /\ csv = PNone
    /\ prior_csv = PNone
    /\ pc = "fetch"

NextFetch == FetchFirstPage \/ FetchSleep \/ FetchNextPage \/ FetchReturn

SpecFetch == InitFetch /\ [][NextFetch]_vars

\* the calls of one run follow one another without the scheduler's help
FairSpecFetch == SpecFetch /\ WF_vars(NextFetch)

----------------------------------------------------------------------------
(* The client's audio-features endpoint and fetch_audio_features *)

\* batch_size = 100
batch_size == 100

\* the identifier list of the batching check has at most this many entries
MaxIds == 201

Min(a, b) == IF a < b THEN a ELSE b

\* track_ids[start:end]
Chunk(ids, s, e) == SubSeq(ids, s + 1, e)

\* range(0, total, batch_size) has been exhausted
RangeDoneEarly(s, total) == s + batch_size >= total
RangeDone(s, total) == s >= total

\* the exception classes of the handler at line 205
CaughtExceptions == {"SpotifyException"}

\* lines 209-216: the entries of one response stored under their ids; null
\* entries and entries without id are skipped, and of several entries with one id
\* the last is the one that stays (each assignment overwrites)
Storable(feats) ==
    {i \in 1..Len(feats) : Truthy(feats[i]) /\ Truthy(Get(feats[i], "id", PNone))}
LastIndex(S) == CHOOSE i \in S : \A j \in S : j <= i
FirstIndex(S) == CHOOSE i \in S : \A j \in S : i <= j
Stored(map, feats) ==
    LET good == Storable(feats)
        ids == {feats[i].d.id : i \in good}
    IN  [x \in DOMAIN map \cup ids |->
            IF x \in ids THEN feats[LastIndex({i \in good : feats[i].d.id = x})]
            ELSE map[x]]

\* what sp.audio_features(chunk) may do: raise the client's SpotifyException
\* (an API error), raise an exception of another class (a transport failure such
\* as ConnectionError, which the handler at line 205 does not name), answer
\* None, or answer a list of feature objects (in any order, with null entries,
\* with entries that carry no id)
Raised(e) == [kind |-> "raise", exc |-> e]
Reverse(sq) == [i \in 1..Len(sq) |-> sq[Len(sq) + 1 - i]]
Feat(tid, k) ==
    PDict([id |-> tid, tempo |-> PFloat(1200 + k), key |-> PInt(k), mode |-> PInt(k % 2),
           danceability |-> PFloat(5), energy |-> PFloat(9), valence |-> PFloat(0),
           acousticness |-> PFloat(1), instrumentalness |-> PInt(0),
           liveness |-> PFloat(3), speechiness |-> PFloat(k), time_signature |-> PInt(4)])
\* an analysis without a detected key: key -1, mode null, the rest missing
FeatNoKey(tid) == PDict([id |-> tid, key |-> PInt(0 - 1), mode |-> PNone])
Responses(chunk) ==
    { Raised("SpotifyException"),
      Raised("ConnectionError"),
      PNone,
      PList([i \in 1..Len(chunk) |-> Feat(chunk[i], 0)]),
      PList(<<PNone>> \o Reverse([i \in 1..Len(chunk) |-> Feat(chunk[i], 7)])),
      PList(<<PDict([key |-> PInt(3), mode |-> PInt(0)]), Feat(chunk[1], 4),
              Feat(track_ids[1], 9), Feat(chunk[1], 11)>>),
      PList(<<FeatNoKey(chunk[Len(chunk)]), Feat(chunk[1], 12)>>) }

\* lines 191-198: the empty mapping; an empty identifier list returns at once
FeaturesStart ==
    /\ pc = "features"
    /\ features_by_id' = <<>>
    /\ start' = 0
    /\ pc' = IF track_ids = <<>> THEN "features_done" ELSE "batch"
    /\ UNCHANGED <<upstream, events, res, items, base_rows, track_ids, final_rows, csv, prior_csv>>
    /\ UNCHANGED camelotVars

\* lines 200-219: one batch: the request, its entries stored, the delay
FeaturesBatch ==
    /\ pc = "batch"
    /\ ~RangeDone(start, Len(track_ids))
    /\ LET end == Min(start + batch_size, Len(track_ids))
           chunk == Chunk(track_ids, start, end)
       IN  \E resp \in Responses(chunk) :
             LET call == [op |-> "audio_features", ids |-> chunk, answer |-> resp]
             IN  IF resp.kind = "raise" /\ resp.exc \notin CaughtExceptions
                 THEN /\ events' = Append(events, call)
                      /\ pc' = "features_raised"
                      /\ UNCHANGED <<features_by_id, start>>
                 ELSE LET feats == IF resp.kind = "raise" THEN PList(<<>>) ELSE resp
                      IN  /\ features_by_id' =
                                IF Truthy(feats) THEN Stored(features_by_id, feats.elems)
                                ELSE features_by_id
                          /\ events' = events \o <<call, [op |-> "sleep", ms |-> SLEEP_MS]>>
                          /\ start' = start + batch_size
                          /\ pc' = "batch"
    /\ UNCHANGED <<upstream, res, items, base_rows, track_ids, final_rows, csv, prior_csv>>
    /\ UNCHANGED camelotVars

\* lines 221-222: return features_by_id
FeaturesReturn ==
    /\ pc = "batch"
    /\ RangeDone(start, Len(track_ids))
    /\ pc' = "features_done"
    /\ UNCHANGED <<upstream, events, res, items, base_rows, track_ids, start,
                   features_by_id, final_rows, csv, prior_csv>>
    /\ UNCHANGED camelotVars

(* fetch_audio_features on its own, on a list of n distinct identifiers *)

IdOf(i) == PStr(<<"T">> \o NatChars(i))

InitBatch ==
    /\ CamelotIdle
    /\ upstream = <<>>
    /\ events = <<>>
    /\ res = PNone
    /\ items = <<>>
    /\ base_rows = <<>>
    /\ \E n \in 0..MaxIds : track_ids = [i \in 1..n |-> IdOf(i)]
    /\ start = 0
    /\ features_by_id = <<>>
    /\ final_rows = <<>>
    /\ csv = PNone
    /\ prior_csv = PNone
    /\ pc = "features"

NextBatch == FeaturesStart \/ FeaturesBatch \/ FeaturesReturn

SpecBatch == InitBatch /\ [][NextBatch]_vars

----------------------------------------------------------------------------
(* Claims about fetch_liked_tracks *)

\* a page without a next-page reference
NoNextRef(page) ==
    \/ "next" \notin DOMAIN page.d
    \/ page.d.next = PNone
    \/ page.d.next = EmptyStr

\* the pages the client serves, in order: page 1, then the page each "next"
\* leads to, up to the first page without one (at most fuel pages)
RECURSIVE Chain(_, _)
Chain(c, fuel) ==
    IF fuel = 0 THEN <<>>
    ELSE IF NoNextRef(upstream[c]) THEN <<c>>
    ELSE <<c>> \o Chain(CHOOSE d \in DOMAIN upstream : Cursor(d) = upstream[c].d.next,
                        fuel - 1)

PageItems(page) == IF "items" \in DOMAIN page.d THEN page.d.items.elems ELSE <<>>

RECURSIVE ConcatPages(_)
ConcatPages(ch) ==
    IF ch = <<>> THEN <<>> ELSE PageItems(upstream[Head(ch)]) \o ConcatPages(Tail(ch))

Sleeps == SelectSeq(events, LAMBDA e : e.op = "sleep")

\* C1: the list fetch_liked_tracks returns is the concatenation of the items of
\* every page served, in page order, and one request is issued per page: the
\* saved-tracks request for the first, a next-page request for each later one.
C1_FetchComplete ==
    pc = "fetched" =>
        LET ch == Chain(1, MaxPages)
        IN  /\ items = ConcatPages(ch)
            /\ Len(Requests) = Len(ch)
            /\ Requests[1] = [op |-> "current_user_saved_tracks", limit |-> limit]
            /\ \A i \in 2..Len(ch) : Requests[i] = [op |-> "next", cursor |-> Cursor(ch[i])]

C1_ThreePagesFetched ==
    /\ pc = "fetched"
    /\ Len(Requests) >= 3
    /\ Len(items) >= 3
    /\ \A i, j \in 1..Len(items) : i # j => items[i] # items[j]

\* C9: the delay occurs once between two consecutive page requests and never
\* before the first: every sleep directly precedes a next-page request, every
\* next-page request directly follows a sleep, and a fetch of p pages has slept
\* p - 1 times.
C9_DelayBetweenPages ==
    /\ \A i \in 1..Len(events) :
          /\ events[i].op = "sleep" =>
                /\ i > 1
                /\ IF i < Len(events) THEN events[i + 1].op = "next" ELSE pc = "fetch_next"
          /\ events[i].op = "next" => i > 1 /\ events[i - 1].op = "sleep"
          /\ events[i].op = "current_user_saved_tracks" => i = 1
    /\ pc = "fetched" => Len(Requests) >= 1 /\ Len(Sleeps) = Len(Requests) - 1

C9_TwoDelaysThreePages ==
    /\ pc = "fetched"
    /\ Len(Requests) = 3
    /\ Len(Sleeps) = 2

\* the next-page references the responses of the run have carried so far
CursorsSeen ==
    LET followed == SelectSeq(events, LAMBDA e : e.op = "next")
    IN  [i \in 1..Len(followed) |-> followed[i].cursor]
        \o (IF res # PNone /\ ~NoNextRef(res) THEN <<res.d.next>> ELSE <<>>)

FreshCursors ==
    \A i, j \in 1..Len(CursorsSeen) : i # j => CursorsSeen[i] # CursorsSeen[j]

\* C10: if every response carries a next-page cursor different from all cursors
\* seen earlier in the run, or none, the loop reaches a response without one and
\* fetch_liked_tracks returns.
C10_FetchTerminates == ([]FreshCursors) => <>(pc = "fetched")

C10_ReturnedAfterFreshCursors ==
    /\ pc = "fetched"
    /\ FreshCursors
    /\ Len(CursorsSeen) = 2

----------------------------------------------------------------------------
(* Claims about fetch_audio_features *)

FeatureCalls == SelectSeq(events, LAMBDA e : e.op = "audio_features")

RECURSIVE ConcatIds(_)
ConcatIds(calls) ==
    IF calls = <<>> THEN <<>> ELSE Head(calls).ids \o ConcatIds(Tail(calls))

\* the entries the answered (not failed) calls delivered, in the order received
RECURSIVE Delivered(_)
Delivered(calls) ==
    IF calls = <<>> THEN <<>>
    ELSE (IF Head(calls).answer.kind = "list"
          THEN SelectSeq(Head(calls).answer.elems,
                         LAMBDA f : f # PNone /\ "id" \in DOMAIN f.d /\ f.d.id.s # <<>>)
          ELSE <<>>)
         \o Delivered(Tail(calls))

\* C2: a failed batch request counts as zero results for that batch: whichever
\* request fails, fetch_audio_features does not abort, every batch is still
\* requested, and the mapping returned holds every entry the answered requests
\* delivered (under each id, the entry delivered last).
C2_BatchFailureTolerated ==
    /\ pc # "features_raised"
    /\ pc = "features_done" =>
          LET got == Delivered(FeatureCalls)
          IN  /\ Len(FeatureCalls) * 100 >= Len(track_ids)
              /\ DOMAIN features_by_id = {got[i].d.id : i \in 1..Len(got)}
              /\ \A i \in 1..Len(got) :
                    \/ features_by_id[got[i].d.id] = got[i]
                    \/ \E j \in (i + 1)..Len(got) : got[j].d.id = got[i].d.id

\* the same statement for the failures the handler at line 205 names: a call
\* that no uncaught exception ended has requested every batch and returns every
\* delivered entry. It holds; C2 itself does not, a ConnectionError on any
\* batch ends the call with the later batches never requested.
C2_CaughtFailureTolerated ==
    pc = "features_done" =>
        LET got == Delivered(FeatureCalls)
        IN  /\ \A i \in 1..Len(FeatureCalls) :
                  FeatureCalls[i].answer.kind = "raise" =>
                      FeatureCalls[i].answer.exc \in CaughtExceptions
            /\ Len(FeatureCalls) * 100 >= Len(track_ids)
            /\ DOMAIN features_by_id = {got[i].d.id : i \in 1..Len(got)}
            /\ \A i \in 1..Len(got) :
                  \/ features_by_id[got[i].d.id] = got[i]
                  \/ \E j \in (i + 1)..Len(got) : got[j].d.id = got[i].d.id

\* a SpotifyException on the middle batch of three: the call returns with the
\* entries of the first and third batch
C2_MiddleBatchFailed ==
    /\ pc = "features_done"
    /\ Len(FeatureCalls) = 3
    /\ FeatureCalls[1].answer.kind = "list"
    /\ FeatureCalls[2].answer.kind = "raise"
    /\ FeatureCalls[3].answer.kind = "list"
    /\ {IdOf(2), IdOf(100), IdOf(201)} \subseteq DOMAIN features_by_id
    /\ IdOf(101) \notin DOMAIN features_by_id

\* a ConnectionError on the middle batch of three: the call is over after two
\* requests, the third batch never requested
C2_MiddleBatchAborted ==
    /\ pc = "features_raised"
    /\ Len(track_ids) = 201
    /\ Len(FeatureCalls) = 2
    /\ FeatureCalls[1].answer.kind = "list"
    /\ FeatureCalls[2].answer = Raised("ConnectionError")

\* C3: the identifier list is cut into contiguous batches of 100: n identifiers
\* make ceil(n/100) requests, each but the last with exactly 100 identifiers, the
\* last with 1 to 100, their payloads in order making up the input list; for
\* n = 0 no request is made and the mapping is empty.
C3_ContiguousBatches ==
    pc = "features_done" =>
        LET n == Len(track_ids)
            calls == FeatureCalls
        IN  /\ Len(calls) = (n + 99) \div 100
            /\ \A i \in 1..(Len(calls) - 1) : Len(calls[i].ids) = 100
            /\ calls # <<>> => Len(calls[Len(calls)].ids) \in 1..100
            /\ ConcatIds(calls) = track_ids
            /\ n = 0 => calls = <<>> /\ features_by_id = <<>>

C3_ThreeBatchesSent ==
    /\ pc = "features_done"
    /\ Len(track_ids) = 201
    /\ Len(FeatureCalls) = 3
    /\ Len(FeatureCalls[3].ids) = 1

----------------------------------------------------------------------------
(* collect_base_rows *)

\* lines 141-148: the item has no track payload or its track has no id
SkippedOnlyWithoutTrack(item) == ~Truthy(Or(Get(item, "track", PNone), EmptyDict))
Skipped(item) ==
    LET track == Or(Get(item, "track", PNone), EmptyDict)
    IN  ~Truthy(track) \/ ~Truthy(Get(track, "id", PNone))

\* "; ".join(names)
RECURSIVE Joined(_)
Joined(names) ==
    IF names = <<>> THEN <<>>
    ELSE IF Len(names) = 1 THEN Head(names).s
    ELSE Head(names).s \o <<";", " ">> \o Joined(Tail(names))

\* lines 140, 150-176: the base row of an item that is not skipped
BaseRow(item) ==
    LET track == Get(item, "track", PNone)
        album == Or(Get(track, "album", PNone), EmptyDict)
        artists == Or(Get(track, "artists", PNone), PList(<<>>))
        artist_names == [i \in 1..Len(artists.elems) |->
                            Get(artists.elems[i], "name", EmptyStr)]
    IN  PDict([track_id |-> Get(track, "id", PNone),
               uri |-> Get(track, "uri", EmptyStr),
               track_name |-> Get(track, "name", EmptyStr),
               artists |-> PStr(Joined(artist_names)),
               album |-> Get(album, "name", EmptyStr),
               release_date |-> Get(album, "release_date", EmptyStr),
               duration_ms |-> Get(track, "duration_ms", PInt(0)),
               popularity |-> Get(track, "popularity", PInt(0)),
               explicit |-> PBool(Truthy(Get(track, "explicit", PBool(FALSE)))),
               added_at |-> Get(item, "added_at", EmptyStr)])

\* lines 179-181: the id joins track_ids the first time it is seen
WithIdAlways(ids, tid) == Append(ids, tid)
WithId(ids, tid) ==
    IF \E i \in 1..Len(ids) : ids[i] = tid THEN ids ELSE Append(ids, tid)

\* the loop of lines 139-181 from the state (rows, ids) over the items left
RECURSIVE Collected(_, _, _)
Collected(its, rows, ids) ==
    IF its = <<>> THEN [rows |-> rows, track_ids |-> ids]
    ELSE IF Skipped(Head(its)) THEN Collected(Tail(its), rows, ids)
    ELSE LET row == BaseRow(Head(its))
         IN  Collected(Tail(its), Append(rows, row), WithId(ids, row.d.track_id))

collect_base_rows(its) == Collected(its, <<>>, <<>>)

----------------------------------------------------------------------------
(* assemble_rows and write_liked_songs_csv *)

CSV_FIELDS ==
    <<"track_id", "uri", "track_name", "artists", "album", "release_date",
      "duration_ms", "popularity", "explicit", "added_at", "tempo", "key", "mode",
      "camelot", "danceability", "energy", "valence", "acousticness",
      "instrumentalness", "liveness", "speechiness", "time_signature">>

\* audio_features_by_id.get(tid) or {}
FeatsFor(map, tid) == Or(IF tid \in DOMAIN map THEN map[tid] ELSE PNone, EmptyDict)

\* line 262: keymode_to_camelot(key, mode)
CamelotOfSwapped(feats) ==
    keymode_to_camelot(Get(feats, "mode", PNone), Get(feats, "key", PNone))
CamelotOf(feats) ==
    keymode_to_camelot(Get(feats, "key", PNone), Get(feats, "mode", PNone))

\* dict(row) followed by .update(upd)
Updated(row, upd) ==
    PDict([k \in DOMAIN row.d \cup DOMAIN upd |-> IF k \in DOMAIN upd THEN upd[k] ELSE row.d[k]])

\* lines 257-278: the merged row of one base row (its camelot code has been computed)
Combined(row, map) ==
    LET feats == FeatsFor(map, row.d.track_id)
    IN  Updated(row,
                [tempo |-> Get(feats, "tempo", PNone),
                 key |-> Get(feats, "key", PNone),
                 mode |-> Get(feats, "mode", PNone),
                 camelot |-> PStr(CamelotOf(feats).ret),
                 danceability |-> Get(feats, "danceability", PNone),
                 energy |-> Get(feats, "energy", PNone),
                 valence |-> Get(feats, "valence", PNone),
                 acousticness |-> Get(feats, "acousticness", PNone),
                 instrumentalness |-> Get(feats, "instrumentalness", PNone),
                 liveness |-> Get(feats, "liveness", PNone),
                 speechiness |-> Get(feats, "speechiness", PNone),
                 time_signature |-> Get(feats, "time_signature", PNone)])

\* assemble_rows(base_rows, audio_features_by_id): the rows, or the exception of
\* the first row whose keymode_to_camelot raises
assemble_rows(rows, map) ==
    LET raising == {i \in 1..Len(rows) :
                       "exc" \in DOMAIN CamelotOf(FeatsFor(map, rows[i].d.track_id))}
    IN  IF raising # {}
        THEN [exc |-> CamelotOf(FeatsFor(map, rows[FirstIndex(raising)].d.track_id)).exc]
        ELSE [ret |-> [i \in 1..Len(rows) |-> Combined(rows[i], map)]]

\* what csv.writer writes for a value: nothing for None, str(value) otherwise
Cell(v) ==
    CASE v.kind = "none" -> <<>>
      [] v.kind = "str" -> v.s
      [] v.kind = "int" -> IntChars(v.v)
      [] v.kind = "bool" -> IF v.b THEN <<"T", "r", "u", "e">> ELSE <<"F", "a", "l", "s", "e">>
      [] v.kind = "float" ->
            IF v.fv = "finite"
            THEN (IF v.tenths < 0 THEN <<"-">> ELSE <<>>)
                 \o NatChars((IF v.tenths < 0 THEN 0 - v.tenths ELSE v.tenths) \div 10)
                 \o <<".">>
                 \o NatChars((IF v.tenths < 0 THEN 0 - v.tenths ELSE v.tenths) % 10)
            ELSE IF v.fv = "inf" THEN <<"i", "n", "f">> ELSE <<"n", "a", "n">>

\* line 296: {k: row.get(k, "") for k in CSV_FIELDS}, as the cells of the line
CsvRow(row) == [j \in 1..Len(CSV_FIELDS) |-> Cell(Get(row, CSV_FIELDS[j], EmptyStr))]

\* lines 291-296: the file opened with "w": the header, then a line per row
WrittenAppending(old, rows) ==
    [kind |-> "file", header |-> CSV_FIELDS,
     rows |-> (IF old = PNone THEN <<>> ELSE old.rows)
              \o [i \in 1..Len(rows) |-> CsvRow(rows[i])]]
Written(old, rows) ==
    [kind |-> "file", header |-> CSV_FIELDS, rows |-> [i \in 1..Len(rows) |-> CsvRow(rows[i])]]

----------------------------------------------------------------------------
(* export_liked_songs: the whole run *)

\* the library of the run holds at most this many saved items
MaxItems == 3

T1 == PStr(<<"T", "1">>)
T2 == PStr(<<"T", "2">>)

\* a saved track with every field
ItemFull ==
    PDict([added_at |-> PStr(<<"d", "1">>),
           track |-> PDict([id |-> T1, uri |-> PStr(<<"u", "1">>),
                            name |-> PStr(<<"n", "1">>),
                            album |-> PDict([name |-> PStr(<<"a", "l">>),
                                             release_date |-> PStr(<<"2", "0">>)]),
                            artists |-> PList(<<PDict([name |-> PStr(<<"A">>)]),
                                                PDict([name |-> PStr(<<"B">>)])>>),
                            duration_ms |-> PInt(45), popularity |-> PInt(7),
                            explicit |-> PBool(TRUE)])])
\* the same track saved again, with nothing but its id
ItemRepeat == PDict([added_at |-> PStr(<<"d", "2">>), track |-> PDict([id |-> T1])])
\* another track: null album and artists, an artist without name, no added_at
ItemSparse ==
    PDict([track |-> PDict([id |-> T2, name |-> PStr(<<"n", "2">>), album |-> PNone,
                            artists |-> PList(<<PDict(<<>>)>>), explicit |-> PBool(FALSE)])])
\* an item whose track payload is null
ItemNoTrack == PDict([added_at |-> PStr(<<"d", "3">>), track |-> PNone])
\* a local file: a track payload whose id is null
ItemLocal ==
    PDict([added_at |-> PStr(<<"d", "4">>),
           track |-> PDict([id |-> PNone, name |-> PStr(<<"l", "o">>),
                            uri |-> PStr(<<"l", ":">>)])])
\* a track payload whose id is the empty string
ItemEmptyId == PDict([added_at |-> PStr(<<"d", "5">>), track |-> PDict([id |-> EmptyStr])])

RawItems == {ItemFull, ItemRepeat, ItemSparse, ItemNoTrack, ItemLocal, ItemEmptyId}
Libraries == UNION {[1..n -> RawItems] : n \in 0..MaxItems}

\* the library served as one page, or as two with k items on the first
Paged(lib, k) ==
    IF k = Len(lib)
    THEN <<PDict([items |-> PList(lib), next |-> PNone])>>
    ELSE <<PDict([items |-> PList(SubSeq(lib, 1, k)), next |-> Cursor(2)]),
           PDict([items |-> PList(SubSeq(lib, k + 1, Len(lib)))])>>

\* an export left by an earlier run
StaleFile == [kind |-> "file", header |-> CSV_FIELDS, rows |-> <<CsvRow(BaseRow(ItemFull))>>]

InitExport ==
    /\ CamelotIdle
    /\ \E lib \in Libraries : \E k \in {Min(1, Len(lib)), Len(lib)} : upstream = Paged(lib, k)
    /\ events = <<>>
    /\ res = PNone
    /\ items = <<>>
    /\ base_rows = <<>>
    /\ track_ids = <<>>
    /\ start = 0
    /\ features_by_id = <<>>
    /\ final_rows = <<>>
    /\ csv \in {PNone, StaleFile}
    /\ prior_csv = csv
    /\ pc = "export"

\* lines 304-307: sp.me()
ExportStart ==
    /\ pc = "export"
    /\ events' = Append(events, [op |-> "me"])
    /\ pc' = "fetch"
    /\ UNCHANGED <<upstream, res, items, base_rows, track_ids, start, features_by_id,
                   final_rows, csv, prior_csv>>
    /\ UNCHANGED camelotVars

\* lines 304, 113, 119: the client raises instead of answering; nothing handles it
\* and the run ends
ClientRaises ==
    /\ pc \in {"export", "fetch", "fetch_next"}
    /\ pc' = "client_raised"
    /\ UNCHANGED <<upstream, events, res, items, base_rows, track_ids, start,
                   features_by_id, final_rows, csv, prior_csv>>
    /\ UNCHANGED camelotVars

\* lines 310-312: nothing fetched, nothing to export
ExportNothing ==
    /\ pc = "fetched"
    /\ items = <<>>
    /\ pc' = "done"
    /\ UNCHANGED <<upstream, events, res, items, base_rows, track_ids, start,
                   features_by_id, final_rows, csv, prior_csv>>
    /\ UNCHANGED camelotVars

\* line 314: collect_base_rows(items)
Collect ==
    /\ pc = "fetched"
    /\ items # <<>>
    /\ base_rows' = collect_base_rows(items).rows
    /\ track_ids' = collect_base_rows(items).track_ids
    /\ pc' = "features"
    /\ UNCHANGED <<upstream, events, res, items, start, features_by_id, final_rows,
                   csv, prior_csv>>
    /\ UNCHANGED camelotVars

\* line 316: assemble_rows(base_rows, audio_features_by_id)
Assemble ==
    /\ pc = "features_done"
    /\ LET r == assemble_rows(base_rows, features_by_id)
       IN  IF "exc" \in DOMAIN r
           THEN /\ pc' = "assemble_raised"
                /\ UNCHANGED final_rows
           ELSE /\ final_rows' = r.ret
                /\ pc' = "write"
    /\ UNCHANGED <<upstream, events, res, items, base_rows, track_ids, start,
                   features_by_id, csv, prior_csv>>
    /\ UNCHANGED camelotVars

\* lines 317-318: write_liked_songs_csv(final_rows)
Write ==
    /\ pc = "write"
    /\ csv' = Written(csv, final_rows)
    /\ pc' = "done"
    /\ UNCHANGED <<upstream, events, res, items, base_rows, track_ids, start,
                   features_by_id, final_rows, prior_csv>>
    /\ UNCHANGED camelotVars

Next ==
    \/ ExportStart
    \/ ClientRaises
    \/ FetchFirstPage
    \/ FetchSleep
    \/ FetchNextPage
    \/ FetchReturn
    \/ ExportNothing
    \/ Collect
    \/ FeaturesStart
    \/ FeaturesBatch
    \/ FeaturesReturn
    \/ Assemble
    \/ Write

Init == InitExport

Spec == Init /\ [][Next]_vars

----------------------------------------------------------------------------
(* Claims about collect_base_rows, assemble_rows and the export *)

\* the raw item has a non-empty track payload with a non-empty identifier
HasUsableId(item) ==
    /\ "track" \in DOMAIN item.d
    /\ item.d.track # PNone
    /\ "id" \in DOMAIN item.d.track.d
    /\ item.d.track.d.id # PNone
    /\ item.d.track.d.id # EmptyStr

\* where identifier x occurs first in the fetched items
FirstSeen(x) ==
    CHOOSE i \in 1..Len(items) :
        /\ HasUsableId(items[i]) /\ items[i].d.track.d.id = x
        /\ \A j \in 1..(i - 1) : ~(HasUsableId(items[j]) /\ items[j].d.track.d.id = x)

RowsCollected == pc \in {"features", "batch", "features_done", "write"} \/ (pc = "done" /\ items # <<>>)
Assembled == pc = "write" \/ (pc = "done" /\ items # <<>>)

\* C4: the identifier list of collect_base_rows holds no identifier twice, holds
\* exactly the identifiers of the base records, and orders them as their first
\* occurrences in the input items.
C4_IdsUniqueFirstSeen ==
    RowsCollected =>
        /\ \A i, j \in 1..Len(track_ids) : i # j => track_ids[i] # track_ids[j]
        /\ {track_ids[i] : i \in 1..Len(track_ids)}
             = {base_rows[i].d.track_id : i \in 1..Len(base_rows)}
        /\ \A i, j \in 1..Len(track_ids) :
              i < j => FirstSeen(track_ids[i]) < FirstSeen(track_ids[j])

C4_RepeatedIdCollected ==
    /\ pc = "features"
    /\ Len(base_rows) = 3
    /\ track_ids = <<T2, T1>>
    /\ base_rows[1].d.track_id = base_rows[3].d.track_id

\* C5: no record with an empty or missing identifier reaches the merge or the
\* output, and the merged list has one record for each raw item with a non-empty
\* track payload and identifier (repeated identifiers keep their records), in the
\* order of those items, whatever the attribute mapping holds.
C5_IdentifiedItemsKeptInOrder ==
    /\ \A i \in 1..Len(base_rows) : base_rows[i].d.track_id \notin {PNone, EmptyStr}
    /\ \A i \in 1..Len(final_rows) : final_rows[i].d.track_id \notin {PNone, EmptyStr}
    /\ (csv # PNone /\ csv # prior_csv) => \A i \in 1..Len(csv.rows) : csv.rows[i][1] # <<>>
    /\ Assembled =>
          LET kept == SelectSeq(items, HasUsableId)
          IN  /\ Len(final_rows) = Len(kept)
              /\ \A i \in 1..Len(kept) :
                    /\ final_rows[i].d.track_id = kept[i].d.track.d.id
                    /\ final_rows[i].d.added_at = Get(kept[i], "added_at", EmptyStr)

C5_LocalFileDroppedRepeatKept ==
    /\ pc = "done"
    /\ items = <<ItemLocal, ItemRepeat, ItemFull>>
    /\ Len(final_rows) = 2
    /\ final_rows[1].d.added_at = PStr(<<"d", "2">>)
    /\ final_rows[2].d.added_at = PStr(<<"d", "1">>)
    /\ T1 \in DOMAIN features_by_id

BaseFields ==
    {"track_id", "uri", "track_name", "artists", "album", "release_date",
     "duration_ms", "popularity", "explicit", "added_at"}
AttributeFields ==
    {"tempo", "key", "mode", "danceability", "energy", "valence", "acousticness",
     "instrumentalness", "liveness", "speechiness", "time_signature"}

\* C6: assemble_rows joins by identifier without failing: a base record whose
\* identifier has no entry in the mapping gets every attribute field absent and an
\* empty camelot code; one whose identifier has an entry gets that entry's values
\* and the camelot code of its key and mode; the base fields stay as they were.
C6_JoinByIdentifier ==
    /\ pc # "assemble_raised"
    /\ Assembled =>
          /\ Len(final_rows) = Len(base_rows)
          /\ \A i \in 1..Len(base_rows) :
                LET tid == base_rows[i].d.track_id
                    m == final_rows[i].d
                IN  /\ \A f \in BaseFields : m[f] = base_rows[i].d[f]
                    /\ DOMAIN m = BaseFields \cup AttributeFields \cup {"camelot"}
                    /\ IF tid \notin DOMAIN features_by_id
                       THEN /\ \A f \in AttributeFields : m[f] = PNone
                            /\ m.camelot = EmptyStr
                       ELSE LET e == features_by_id[tid]
                            IN  /\ \A f \in AttributeFields :
                                      m[f] = IF f \in DOMAIN e.d THEN e.d[f] ELSE PNone
                                /\ m.camelot =
                                      PStr(keymode_to_camelot(
                                               IF "key" \in DOMAIN e.d THEN e.d.key ELSE PNone,
                                               IF "mode" \in DOMAIN e.d THEN e.d.mode ELSE PNone).ret)

C6_MatchedAndUnmatchedRows ==
    /\ pc = "write"
    /\ Len(final_rows) = 2
    /\ final_rows[1].d.track_id \in DOMAIN features_by_id
    /\ final_rows[1].d.camelot = PStr(<<"1", "B">>)
    /\ final_rows[1].d.tempo = PFloat(1211)
    /\ final_rows[2].d.track_id \notin DOMAIN features_by_id
    /\ final_rows[2].d.camelot = EmptyStr

ExpectedHeader ==
    <<"track_id", "uri", "track_name", "artists", "album", "release_date",
      "duration_ms", "popularity", "explicit", "added_at", "tempo", "key", "mode",
      "camelot", "danceability", "energy", "valence", "acousticness",
      "instrumentalness", "liveness", "speechiness", "time_signature">>

\* the artifact holds the header and one line per merged record of this run
FreshExport ==
    /\ csv # PNone
    /\ csv.header = ExpectedHeader
    /\ Len(csv.rows) = Len(SelectSeq(items, HasUsableId))
    /\ Len(csv.rows) = Len(final_rows)
    /\ \A i \in 1..Len(csv.rows) :
          /\ Len(csv.rows[i]) = 22
          /\ csv.rows[i] = CsvRow(final_rows[i])
          /\ csv.rows[i][1] = SelectSeq(items, HasUsableId)[i].d.track.d.id.s

\* C8 (as stated): after any run of export_liked_songs that ends without a fatal
\* error, whatever the artifact held before, it holds exactly the header row and
\* one row per merged record of that run's fetched data.
C8_FreshExportAfterEveryRun == pc = "done" => FreshExport

\* C8 (amended): after a run that ends without a fatal error and fetched at
\* least one item, the artifact holds exactly the header row and one row per
\* merged record of that run, whatever it held before; a run that fetched no
\* item leaves the artifact as it was.
C8_FreshExportUnlessNothingFetched ==
    pc = "done" => IF items = <<>> THEN csv = prior_csv ELSE FreshExport

C8_StaleFileOverwritten ==
    /\ pc = "done"
    /\ items # <<>>
    /\ prior_csv = StaleFile
    /\ Len(csv.rows) = 2
    /\ csv.rows[1][1] = <<"T", "2">>

====
